---- MODULE Spec2Model ----
(***************************************************************************)
(* The anti-detection message queue of the WhatsApp API server            *)
(* (src/unnamed/part_003, lines 195-381 and 1677-1693): the FIFO queue,   *)
(* the serial worker processMessageQueue, the rate/cooldown tracker       *)
(* shouldWait, the pattern detector detectSuspiciousPattern, the bounded  *)
(* history and the timers of the Node.js event loop that drive them.      *)
(*                                                                         *)
(* Time is in milliseconds.  One step of the model is one run-to-         *)
(* completion turn of the event loop: a handler runs without interruption *)
(* until it returns or reaches an await.                                  *)
(***************************************************************************)
EXTENDS Integers, Sequences, FiniteSets

VARIABLES
    env,                  \* process.env values read at line 202-210
    workload,             \* the units the HTTP callers are going to submit, in order
    now,                  \* Date.now()
    epoch,                \* the instant at which the run under study begins
    units,                \* every unit submitted so far, by submission number
    messageQueue,         \* line 214, holds submission numbers
    isProcessingQueue,    \* line 215
    lastMessageTime,      \* line 216
    messageCountInWindow, \* line 217
    cooldownUntil,        \* line 218
    messageHistory,       \* line 221
    loops,                \* the invocations of processMessageQueue that are suspended at an await
    decayTimers,          \* deadlines of the pending setTimeout callbacks of line 351
    nextCleanupAt,        \* deadline of the setInterval callback of line 1678
    outcome,              \* the promise returned by queueMessage, per unit
    audit,                \* history variable: what happened to each unit, and when
    dispatchLog,          \* history variable: units in the order sendFunction was invoked
    added,                \* history variable: number of addToHistory calls so far
    probe,                \* what the last call from outside the worker returned to its caller
    isLoggingOut,         \* line 190
    isClientDestroyed,    \* line 191
    client,               \* line 448: the current Client object
    logoutRuns,           \* the async blocks of line 1479 that have not finished
    reconnectTimers,      \* number of pending setTimeout callbacks of line 502
    logoutReplies         \* history variable: the answers of POST /api/logout, in order

vars == <<env, workload, now, epoch, units, messageQueue, isProcessingQueue, lastMessageTime,
          messageCountInWindow, cooldownUntil, messageHistory, loops, decayTimers,
          nextCleanupAt, outcome, audit, dispatchLog, added, probe,
          isLoggingOut, isClientDestroyed, client, logoutRuns, reconnectTimers, logoutReplies>>

sessionVars == <<isLoggingOut, isClientDestroyed, client, logoutRuns, reconnectTimers,
                 logoutReplies>>

engineVars == <<env, workload, now, epoch, units, messageQueue, isProcessingQueue,
                lastMessageTime, messageCountInWindow, cooldownUntil, messageHistory, loops,
                decayTimers, nextCleanupAt, outcome, audit, dispatchLog, added, probe>>

(***************************************************************************)
(* Bounds of the model.                                                    *)
(***************************************************************************)
MaxUnits == 4      \* units submitted in one run
MaxTicks == 15     \* clock ticks in one run of Spec
RandDen == 2       \* Math.random() is drawn from the multiples of 1 / RandDen
MaxHours == 2      \* hours that pass in one run of HistSpec

(***************************************************************************)
(* Program constants.                                                      *)
(***************************************************************************)
MAX_HISTORY_SIZE == 50
DefaultMinDelay == 2000
DefaultMaxDelay == 5000
DefaultCooldownPeriod == 30000
DefaultMaxMessages == 5
DefaultMultiplierTenths == 15
RoundStep == 100
PrefixLen == 50
RepeatWindowMs == 60000
RecipientWindowMs == 10000
PatternThreshold == 3
HourMs == 60 * 60 * 1000
MaxAgeMs == 24 * HourMs

TickMs == 10 * RoundStep
\* Date.now() at process start: any instant later than every delay and window.
StartTime == 2 * RepeatWindowMs

\* A sendFunction call settles within ExecTicks ticks, a fixed share of the run.
ExecTicks == MaxTicks \div 10
\* The requests of a run arrive back to back, before the clock moves on; they
\* interleave in every way with what the worker does at that instant.
SubmitUntil == epoch

\* Nothing was called from outside the worker yet.
NoCall == [fn |-> "none"]

Min(a, b) == IF a < b THEN a ELSE b
Max(a, b) == IF a > b THEN a ELSE b

(***************************************************************************)
(* Configuration.  An environment variable is <<>> when unset and <<n>>   *)
(* when it parses to the number n.  `parseInt(x) || d` yields d when x is *)
(* unset (NaN) and also when x is 0.                                       *)
(***************************************************************************)
ParseOr(v, d) == IF v = <<>> \/ v[1] = 0 THEN d ELSE v[1]

ANTI_DETECTION_CONFIG ==
    [minDelay |-> ParseOr(env.MIN_MESSAGE_DELAY, DefaultMinDelay),
     maxDelay |-> ParseOr(env.MAX_MESSAGE_DELAY, DefaultMaxDelay),
     cooldownPeriod |-> ParseOr(env.COOLDOWN_PERIOD, DefaultCooldownPeriod),
     maxMessagesBeforeCooldown |-> ParseOr(env.MAX_MESSAGES_BEFORE_COOLDOWN, DefaultMaxMessages),
     mediaDelayMultiplierTenths |-> ParseOr(env.MEDIA_DELAY_MULTIPLIER, DefaultMultiplierTenths)]

\* The environment of the spec's scenario: zero delays, cooldown 1000 ms after 2 sends.
ScenarioEnv ==
    [MIN_MESSAGE_DELAY |-> <<0>>, MAX_MESSAGE_DELAY |-> <<0>>, COOLDOWN_PERIOD |-> <<1000>>,
     MAX_MESSAGES_BEFORE_COOLDOWN |-> <<2>>, MEDIA_DELAY_MULTIPLIER |-> <<>>]

\* Short delays, a cooldown longer than one spacing and shorter than two.
FastEnv ==
    [MIN_MESSAGE_DELAY |-> <<1000>>, MAX_MESSAGE_DELAY |-> <<3000>>, COOLDOWN_PERIOD |-> <<4000>>,
     MAX_MESSAGES_BEFORE_COOLDOWN |-> <<2>>, MEDIA_DELAY_MULTIPLIER |-> <<>>]

\* One fixed delay.
SteadyEnv ==
    [MIN_MESSAGE_DELAY |-> <<1000>>, MAX_MESSAGE_DELAY |-> <<1000>>, COOLDOWN_PERIOD |-> <<3000>>,
     MAX_MESSAGES_BEFORE_COOLDOWN |-> <<2>>, MEDIA_DELAY_MULTIPLIER |-> <<>>]

\* No variable set: the defaults of lines 202-210.
DefaultEnv ==
    [MIN_MESSAGE_DELAY |-> <<>>, MAX_MESSAGE_DELAY |-> <<>>, COOLDOWN_PERIOD |-> <<>>,
     MAX_MESSAGES_BEFORE_COOLDOWN |-> <<>>, MEDIA_DELAY_MULTIPLIER |-> <<>>]

EnvChoices == {ScenarioEnv, FastEnv, DefaultEnv}

(***************************************************************************)
(* A message is a string, written as the sequence of its runs: <<c, n>> is *)
(* the character c repeated n times; neighbouring runs differ in c, so two *)
(* messages are the same string exactly when they are the same sequence.   *)
(***************************************************************************)
LongA == << <<"a", PrefixLen>>, <<"x", 1>> >>
LongB == << <<"a", PrefixLen>>, <<"y", 1>> >>
Short == << <<"h", 1>>, <<"i", 1>> >>
Empty == << >>

\* What a unit's sendFunction settles with.  The handlers of lines 1015 and 1178 pass a
\* function that returns nothing and rejects with the error of client.sendMessage; a
\* sendFunction may as well return the message it sent.
ReturnsNothing == [resolvesWith |-> "undefined", rejectsWith |-> "Error: Session closed"]
ReturnsMessage == [resolvesWith |-> "sentMessage", rejectsWith |-> "Error: Evaluation failed"]

UnitA == [recipientId |-> "g1", message |-> LongA, hasMedia |-> FALSE, sendFunction |-> ReturnsNothing]
UnitB == [recipientId |-> "g2", message |-> LongB, hasMedia |-> FALSE, sendFunction |-> ReturnsMessage]
UnitC == [recipientId |-> "g1", message |-> Empty, hasMedia |-> TRUE, sendFunction |-> ReturnsNothing]
UnitD == [recipientId |-> "g3", message |-> Short, hasMedia |-> FALSE, sendFunction |-> ReturnsMessage]

\* The request streams of a run; a stream is repeated when it is exhausted.
Workloads ==
    { <<UnitA, UnitB>>,          \* one digest, alternating recipients
      <<UnitA, UnitC>>,          \* one recipient, alternating digests
      <<UnitB, UnitC, UnitD>> }  \* distinct digests and recipients

NextUnit(n) == workload[(n % Len(workload)) + 1]

\* String.prototype.substring(0, n): the first n characters, or the whole string.
RECURSIVE Substring0(_, _)
Substring0(message, n) ==
    IF n <= 0 \/ message = << >> THEN << >>
    ELSE IF message[1][2] <= n
         THEN <<message[1]>> \o Substring0(Tail(message), n - message[1][2])
         ELSE << <<message[1][1], n>> >>

\* Math.random() yields k / RandDen: the least and the largest value below 1.
RandChoices == {0, RandDen - 1}

\* Mutation: Math.floor for Math.round at line 235.
getHumanDelayFloor(hasMedia, k) ==
    LET cfg == ANTI_DETECTION_CONFIG
        baseNum == cfg.minDelay * RandDen + k * (cfg.maxDelay - cfg.minDelay)
        num == IF hasMedia THEN baseNum * cfg.mediaDelayMultiplierTenths ELSE baseNum
        den == IF hasMedia THEN RandDen * 10 ELSE RandDen
    IN  (num \div (RoundStep * den)) * RoundStep

(***************************************************************************)
(* getHumanDelay, lines 225-236.  k / RandDen is the value of              *)
(* Math.random(); Math.round(x) is floor(x + 1/2).                         *)
(***************************************************************************)
getHumanDelay(hasMedia, k) ==
    LET cfg == ANTI_DETECTION_CONFIG
        \* baseDelay = baseNum / RandDen
        baseNum == cfg.minDelay * RandDen + k * (cfg.maxDelay - cfg.minDelay)
        \* delay = num / den
        num == IF hasMedia THEN baseNum * cfg.mediaDelayMultiplierTenths ELSE baseNum
        den == IF hasMedia THEN RandDen * 10 ELSE RandDen
    IN  ((2 * num + RoundStep * den) \div (2 * RoundStep * den)) * RoundStep

\* Mutation: the cooldown is noted but not waited for (line 251 returns 0).
shouldWaitNoCooldownWait(s, k) ==
    LET cfg == ANTI_DETECTION_CONFIG
        timeSinceLastMessage == now - s.lastMessageTime
        requiredDelay == getHumanDelay(FALSE, k)
    IN  IF now < s.cooldownUntil
        THEN [wait |-> s.cooldownUntil - now, triggered |-> FALSE,
              cooldownUntil |-> s.cooldownUntil,
              messageCountInWindow |-> s.messageCountInWindow]
        ELSE IF s.messageCountInWindow >= cfg.maxMessagesBeforeCooldown
        THEN [wait |-> 0, triggered |-> TRUE,
              cooldownUntil |-> now + cfg.cooldownPeriod,
              messageCountInWindow |-> 0]
        ELSE [wait |-> IF timeSinceLastMessage < requiredDelay
                       THEN requiredDelay - timeSinceLastMessage ELSE 0,
              triggered |-> FALSE,
              cooldownUntil |-> s.cooldownUntil,
              messageCountInWindow |-> s.messageCountInWindow]

\* Mutation: the counter is not compared with the maximum (lines 247-252 missing).
shouldWaitNoLimit(s, k) ==
    LET timeSinceLastMessage == now - s.lastMessageTime
        requiredDelay == getHumanDelay(FALSE, k)
    IN  IF now < s.cooldownUntil
        THEN [wait |-> s.cooldownUntil - now, triggered |-> FALSE,
              cooldownUntil |-> s.cooldownUntil,
              messageCountInWindow |-> s.messageCountInWindow]
        ELSE [wait |-> IF timeSinceLastMessage < requiredDelay
                       THEN requiredDelay - timeSinceLastMessage ELSE 0,
              triggered |-> FALSE,
              cooldownUntil |-> s.cooldownUntil,
              messageCountInWindow |-> s.messageCountInWindow]

\* Mutation: the counter is not reset when the cooldown starts (line 250 missing).
shouldWaitKeepCount(s, k) ==
    LET cfg == ANTI_DETECTION_CONFIG
        timeSinceLastMessage == now - s.lastMessageTime
        requiredDelay == getHumanDelay(FALSE, k)
    IN  IF now < s.cooldownUntil
        THEN [wait |-> s.cooldownUntil - now, triggered |-> FALSE,
              cooldownUntil |-> s.cooldownUntil,
              messageCountInWindow |-> s.messageCountInWindow]
        ELSE IF s.messageCountInWindow >= cfg.maxMessagesBeforeCooldown
        THEN [wait |-> cfg.cooldownPeriod, triggered |-> TRUE,
              cooldownUntil |-> now + cfg.cooldownPeriod,
              messageCountInWindow |-> s.messageCountInWindow]
        ELSE [wait |-> IF timeSinceLastMessage < requiredDelay
                       THEN requiredDelay - timeSinceLastMessage ELSE 0,
              triggered |-> FALSE,
              cooldownUntil |-> s.cooldownUntil,
              messageCountInWindow |-> s.messageCountInWindow]

(***************************************************************************)
(* shouldWait, lines 239-263: the wait, and the rate state it leaves.      *)
(***************************************************************************)
shouldWait(s, k) ==
    LET cfg == ANTI_DETECTION_CONFIG
        timeSinceLastMessage == now - s.lastMessageTime
        requiredDelay == getHumanDelay(FALSE, k)
    IN  IF now < s.cooldownUntil
        THEN [wait |-> s.cooldownUntil - now, triggered |-> FALSE,
              cooldownUntil |-> s.cooldownUntil,
              messageCountInWindow |-> s.messageCountInWindow]
        ELSE IF s.messageCountInWindow >= cfg.maxMessagesBeforeCooldown
        THEN [wait |-> cfg.cooldownPeriod, triggered |-> TRUE,
              cooldownUntil |-> now + cfg.cooldownPeriod,
              messageCountInWindow |-> 0]
        ELSE [wait |-> IF timeSinceLastMessage < requiredDelay
                       THEN requiredDelay - timeSinceLastMessage ELSE 0,
              triggered |-> FALSE,
              cooldownUntil |-> s.cooldownUntil,
              messageCountInWindow |-> s.messageCountInWindow]

\* Mutation: the history is never trimmed (lines 275-277 missing).
addToHistoryNoEvict(history, recipientId, message, hasMedia, seq) ==
    Append(history,
           [recipientId |-> recipientId,
            message |-> Substring0(message, PrefixLen),
            hasMedia |-> hasMedia,
            timestamp |-> now,
            seq |-> seq])

(***************************************************************************)
(* addToHistory, lines 266-278.  seq numbers the entries in the order they *)
(* were added.                                                             *)
(***************************************************************************)
addToHistory(history, recipientId, message, hasMedia, seq) ==
    LET pushed == Append(history,
                     [recipientId |-> recipientId,
                      message |-> Substring0(message, PrefixLen),
                      hasMedia |-> hasMedia,
                      timestamp |-> now,
                      seq |-> seq])
    IN  IF Len(pushed) > MAX_HISTORY_SIZE THEN Tail(pushed) ELSE pushed

(***************************************************************************)
(* detectSuspiciousPattern, lines 281-301.                                 *)
(***************************************************************************)
\* Mutation: the stored prefix is compared with the whole message (no substring at line 284).
recentMessagesWhole(history, message) ==
    SelectSeq(SelectSeq(history, LAMBDA m : now - m.timestamp < RepeatWindowMs),
              LAMBDA m : m.message = message)

recentMessages(history, message) ==
    SelectSeq(SelectSeq(history, LAMBDA m : now - m.timestamp < RepeatWindowMs),
              LAMBDA m : m.message = Substring0(message, PrefixLen))

sameRecipient(history, recipientId) ==
    SelectSeq(SelectSeq(history, LAMBDA m : now - m.timestamp < RecipientWindowMs),
              LAMBDA m : m.recipientId = recipientId)

\* Mutation: the repetition rule of lines 282-289 is missing.
detectRecipientOnly(history, recipientId, message) ==
    IF Len(sameRecipient(history, recipientId)) >= PatternThreshold THEN TRUE ELSE FALSE

\* Mutation: the recipient rule of lines 291-298 is missing.
detectRepeatOnly(history, recipientId, message) ==
    IF Len(recentMessages(history, message)) >= PatternThreshold THEN TRUE ELSE FALSE

detectSuspiciousPattern(history, recipientId, message) ==
    IF Len(recentMessages(history, message)) >= PatternThreshold THEN TRUE
    ELSE IF Len(sameRecipient(history, recipientId)) >= PatternThreshold THEN TRUE
    ELSE FALSE

\* What the history holds at this instant, counted entry by entry (for the audit).
RepeatsInWindow(history, message) ==
    Cardinality({ i \in DOMAIN history :
                    /\ now - history[i].timestamp < RepeatWindowMs
                    /\ history[i].message = Substring0(message, PrefixLen) })

SendsToRecipientInWindow(history, recipientId) ==
    Cardinality({ i \in DOMAIN history :
                    /\ now - history[i].timestamp < RecipientWindowMs
                    /\ history[i].recipientId = recipientId })

(***************************************************************************)
(* The state a handler reads and writes, as a record; Apply installs it.   *)
(***************************************************************************)
Cur ==
    [units |-> units, messageQueue |-> messageQueue,
     isProcessingQueue |-> isProcessingQueue, lastMessageTime |-> lastMessageTime,
     messageCountInWindow |-> messageCountInWindow, cooldownUntil |-> cooldownUntil,
     messageHistory |-> messageHistory, loops |-> loops, decayTimers |-> decayTimers,
     outcome |-> outcome, audit |-> audit, dispatchLog |-> dispatchLog, added |-> added]

Apply(s) ==
    /\ units' = s.units
    /\ messageQueue' = s.messageQueue
    /\ isProcessingQueue' = s.isProcessingQueue
    /\ lastMessageTime' = s.lastMessageTime
    /\ messageCountInWindow' = s.messageCountInWindow
    /\ cooldownUntil' = s.cooldownUntil
    /\ messageHistory' = s.messageHistory
    /\ loops' = s.loops
    /\ decayTimers' = s.decayTimers
    /\ outcome' = s.outcome
    /\ audit' = s.audit
    /\ dispatchLog' = s.dispatchLog
    /\ added' = s.added

RemoveAt(seq, i) == SubSeq(seq, 1, i - 1) \o SubSeq(seq, i + 1, Len(seq))

\* The invocation i of processMessageQueue reaches `await new Promise(setTimeout(.., delay))`.
Suspend(s, i, pc, delay) ==
    [s EXCEPT !.loops[i].pc = pc, !.loops[i].wakeAt = now + delay]

(***************************************************************************)
(* processMessageQueue, lines 304-364, cut at its awaits.                  *)
(***************************************************************************)
\* Mutation: the tracking of lines 341-353 is done before sendFunction is invoked.
InvokeSendRecording(s, i) ==
    LET u == s.loops[i].queueItem
    IN  [s EXCEPT !.loops[i].pc = "sending",
                  !.loops[i].wakeAt = 0,
                  !.dispatchLog = Append(@, u),
                  !.audit[u].execs = @ + 1,
                  !.audit[u].dispatchedAt = now,
                  !.lastMessageTime = now,
                  !.messageCountInWindow = @ + 1,
                  !.decayTimers = Append(@, now + ANTI_DETECTION_CONFIG.cooldownPeriod),
                  !.audit[u].records = @ + 1,
                  !.audit[u].recordedAt = now]

\* line 338: sendFunction is invoked and the loop awaits its promise
InvokeSend(s, i) ==
    LET u == s.loops[i].queueItem
    IN  [s EXCEPT !.loops[i].pc = "sending",
                  !.loops[i].wakeAt = 0,
                  !.dispatchLog = Append(@, u),
                  !.audit[u].execs = @ + 1,
                  !.audit[u].dispatchedAt = now]

\* Mutation: the unit stays at the head of the queue (line 328 missing).
ShiftAndDelayKeep(s, i) ==
    LET u == s.loops[i].queueItem
    IN  { LET delay == getHumanDelay(s.units[u].hasMedia, k)
          IN  IF delay > 0 /\ s.lastMessageTime > 0
              THEN Suspend(s, i, "waitDelay", delay)
              ELSE InvokeSend(s, i)
          : k \in RandChoices }

\* lines 327-336: remove the head of the queue, then the human delay
ShiftAndDelay(s, i) ==
    LET u == s.loops[i].queueItem
        s1 == [s EXCEPT !.messageQueue = IF @ = <<>> THEN @ ELSE Tail(@),
                        !.audit[u].delayChecks = @ + 1]
    IN  { LET delay == getHumanDelay(s.units[u].hasMedia, k)
          IN  IF delay > 0 /\ s1.lastMessageTime > 0
              THEN Suspend([s1 EXCEPT !.audit[u].delayWait = delay], i, "waitDelay", delay)
              ELSE InvokeSend(s1, i)
          : k \in RandChoices }

\* Mutation: a flagged unit is refused instead of delayed.
PatternCheckRejects(s, i) ==
    LET u == s.loops[i].queueItem
        s1 == [s EXCEPT !.audit[u].patternChecks = @ + 1,
                        !.audit[u].patternCheckedAt = now,
                        !.audit[u].repeatsSeen =
                            RepeatsInWindow(s.messageHistory, s.units[u].message),
                        !.audit[u].recipientSeen =
                            SendsToRecipientInWindow(s.messageHistory, s.units[u].recipientId)]
    IN  IF detectSuspiciousPattern(s.messageHistory, s.units[u].recipientId, s.units[u].message)
        THEN ShiftAndDelay([s1 EXCEPT !.audit[u].flags = @ + 1, !.outcome[u] = "rejected"], i)
        ELSE ShiftAndDelay(s1, i)

\* lines 321-325: the pattern check and its penalty
PatternCheck(s, i) ==
    LET u == s.loops[i].queueItem
        s1 == [s EXCEPT !.audit[u].patternChecks = @ + 1,
                        !.audit[u].patternCheckedAt = now,
                        !.audit[u].repeatsSeen =
                            RepeatsInWindow(s.messageHistory, s.units[u].message),
                        !.audit[u].recipientSeen =
                            SendsToRecipientInWindow(s.messageHistory, s.units[u].recipientId)]
    IN  IF detectSuspiciousPattern(s.messageHistory, s.units[u].recipientId, s.units[u].message)
        THEN { Suspend([s1 EXCEPT !.audit[u].flags = @ + 1,
                                  !.audit[u].penaltyWait = ANTI_DETECTION_CONFIG.cooldownPeriod],
                       i, "waitPattern", ANTI_DETECTION_CONFIG.cooldownPeriod) }
        ELSE ShiftAndDelay(s1, i)

\* Mutation: the worker clears the cooldown when it goes idle.
LoopReturnReset(s, i) ==
    [s EXCEPT !.isProcessingQueue = FALSE, !.loops = RemoveAt(@, i), !.cooldownUntil = 0]

\* Mutation: the loop returns without clearing the flag (line 363 missing).
LoopReturnStuck(s, i) == [s EXCEPT !.loops = RemoveAt(@, i)]

\* line 363 and the return
LoopReturn(s, i) ==
    [s EXCEPT !.isProcessingQueue = FALSE, !.loops = RemoveAt(@, i)]

\* lines 311-319: the loop test, the capture of the head and the admission check
LoopIteration(s, i) ==
    IF Len(s.messageQueue) > 0
    THEN LET u == s.messageQueue[1]
             s0 == [s EXCEPT !.loops[i].queueItem = u]
         IN  UNION { LET w == shouldWait(s0, k)
                         s1 == [s0 EXCEPT !.cooldownUntil = w.cooldownUntil,
                                          !.messageCountInWindow = w.messageCountInWindow,
                                          !.audit[u].rateChecks = @ + 1,
                                          !.audit[u].admissionWait = w.wait,
                                          !.audit[u].cooldownAt =
                                              IF w.triggered THEN now ELSE @]
                     IN  IF w.wait > 0
                         THEN { Suspend(s1, i, "waitRate", w.wait) }
                         ELSE PatternCheck(s1, i)
                     : k \in RandChoices }
    ELSE { LoopReturn(s, i) }

\* Mutation: the guard of line 305 does not look at isProcessingQueue.
processMessageQueueUnguarded(s) ==
    IF Len(s.messageQueue) = 0
    THEN { s }
    ELSE LET s1 == [s EXCEPT !.isProcessingQueue = TRUE,
                             !.loops = Append(@, [pc |-> "running", queueItem |-> 0, wakeAt |-> 0])]
         IN  LoopIteration(s1, Len(s1.loops))

\* lines 305-309: the guard and the flag
processMessageQueue(s) ==
    IF s.isProcessingQueue \/ Len(s.messageQueue) = 0
    THEN { s }
    ELSE LET s1 == [s EXCEPT !.isProcessingQueue = TRUE,
                             !.loops = Append(@, [pc |-> "running", queueItem |-> 0, wakeAt |-> 0])]
         IN  LoopIteration(s1, Len(s1.loops))

\* lines 340-353, after sendFunction resolved
SendSucceeded(s, i) ==
    LET u == s.loops[i].queueItem
        item == s.units[u]
    IN  [s EXCEPT !.lastMessageTime = now,
                  !.messageCountInWindow = @ + 1,
                  !.messageHistory = addToHistory(@, item.recipientId, item.message,
                                                  item.hasMedia, s.added + 1),
                  !.added = @ + 1,
                  !.outcome[u] = IF @ = "pending" THEN "resolved" ELSE @,
                  !.decayTimers = Append(@, now + ANTI_DETECTION_CONFIG.cooldownPeriod),
                  !.audit[u].result = "ok",
                  !.audit[u].records = @ + 1,
                  !.audit[u].recordedAt = now,
                  !.audit[u].settles = @ + 1,
                  !.audit[u].settledAt = now,
                  !.audit[u].returned = item.sendFunction.resolvesWith,
                  \* line 347: resolve is called without an argument
                  !.audit[u].value = IF s.outcome[u] = "pending" THEN "undefined" ELSE @]

\* Mutation: the catch block records the attempt in the history as well.
SendFailedRecording(s, i) ==
    LET u == s.loops[i].queueItem
        item == s.units[u]
        error == item.sendFunction.rejectsWith
    IN  [s EXCEPT !.outcome[u] = IF @ = "pending" THEN "rejected" ELSE @,
                  !.messageHistory = addToHistory(@, item.recipientId, item.message,
                                                  item.hasMedia, s.added + 1),
                  !.audit[u].result = "fail",
                  !.audit[u].settles = @ + 1,
                  !.audit[u].settledAt = now,
                  !.audit[u].returned = error,
                  !.audit[u].value = IF s.outcome[u] = "pending" THEN error ELSE @]

\* Mutation: the catch block rejects with an error of its own and queues the unit again.
SendFailedRequeue(s, i) ==
    LET u == s.loops[i].queueItem
    IN  [s EXCEPT !.outcome[u] = IF @ = "pending" THEN "rejected" ELSE @,
                  !.messageQueue = Append(@, u),
                  !.audit[u].result = "fail",
                  !.audit[u].settles = @ + 1,
                  !.audit[u].settledAt = now,
                  !.audit[u].returned = s.units[u].sendFunction.rejectsWith,
                  !.audit[u].value = IF s.outcome[u] = "pending" THEN "Error: send failed" ELSE @]

\* lines 355-360, after sendFunction rejected
SendFailed(s, i) ==
    LET u == s.loops[i].queueItem
        error == s.units[u].sendFunction.rejectsWith
    IN  [s EXCEPT !.outcome[u] = IF @ = "pending" THEN "rejected" ELSE @,
                  !.audit[u].result = "fail",
                  !.audit[u].settles = @ + 1,
                  !.audit[u].settledAt = now,
                  !.audit[u].returned = error,
                  \* line 358: reject is called with the error that was caught
                  !.audit[u].value = IF s.outcome[u] = "pending" THEN error ELSE @]

\* line 354: the try block is done, the loop goes back to its test
AfterTry(s, i) == LoopIteration(s, i)

\* Mutation: no try/catch, the rejection ends the loop and the flag stays set.
AfterCatchRethrow(s, i) == { [s EXCEPT !.loops = RemoveAt(@, i)] }

\* line 360: the catch block is done, the loop goes back to its test
AfterCatch(s, i) == LoopIteration(s, i)

(***************************************************************************)
(* queueMessage, lines 367-381.                                            *)
(***************************************************************************)
NewAudit ==
    [submittedAt |-> now, idleAtSubmit |-> ~isProcessingQueue, rateChecks |-> 0, cooldownAt |-> 0, patternChecks |-> 0,
     patternCheckedAt |-> 0, repeatsSeen |-> 0, recipientSeen |-> 0, flags |-> 0,
     execs |-> 0, dispatchedAt |-> 0, result |-> "none", recordedAt |-> 0,
     settles |-> 0, settledAt |-> 0, returned |-> "none", value |-> "none", records |-> 0,
     admissionWait |-> 0, penaltyWait |-> 0, delayChecks |-> 0, delayWait |-> 0]

\* Mutation: the unit is put at the head of the queue (unshift for push).
PushFront(queue, u) == <<u>> \o queue

Push(queue, u) == Append(queue, u)

\* Mutation: the unit is queued and processMessageQueue is not called (line 379 missing).
queueMessageNoWake(s, item) ==
    LET u == Len(s.units) + 1
    IN  { [s EXCEPT !.units = Append(@, item),
                    !.outcome = Append(@, "pending"),
                    !.audit = Append(@, NewAudit),
                    !.messageQueue = Push(@, u)] }

\* Mutation: the promise is resolved as soon as the unit is queued.
queueMessageEager(s, item) ==
    LET u == Len(s.units) + 1
        s1 == [s EXCEPT !.units = Append(@, item),
                        !.outcome = Append(@, "resolved"),
                        !.audit = Append(@, [NewAudit EXCEPT !.settles = 1, !.settledAt = now]),
                        !.messageQueue = Push(@, u)]
    IN  processMessageQueue(s1)

queueMessage(s, item) ==
    LET u == Len(s.units) + 1
        s1 == [s EXCEPT !.units = Append(@, item),
                        !.outcome = Append(@, "pending"),
                        !.audit = Append(@, NewAudit),
                        !.messageQueue = Push(@, u)]
    IN  processMessageQueue(s1)

(***************************************************************************)
(* Timers.  Node runs the callbacks of due timers in the order of their    *)
(* deadlines, and runs them before the clock moves on.                     *)
(***************************************************************************)
Waiting(l) == l.pc \in {"waitRate", "waitPattern", "waitDelay"}

Deadlines(withInterval) ==
    { loops[i].wakeAt : i \in { j \in DOMAIN loops : Waiting(loops[j]) } }
    \cup { decayTimers[i] : i \in DOMAIN decayTimers }
    \cup (IF withInterval THEN {nextCleanupAt} ELSE {})

Due(deadline, withInterval) ==
    /\ deadline <= now
    /\ \A d \in Deadlines(withInterval) : deadline <= d

NoneDue(withInterval) == \A d \in Deadlines(withInterval) : d > now

\* No sendFunction call has been running for ExecTicks ticks.
SendsInTime ==
    \A i \in DOMAIN loops :
        loops[i].pc = "sending" => now < audit[loops[i].queueItem].dispatchedAt + ExecTicks * TickMs

\* Something is still to happen without a further request.
Busy == loops # <<>> \/ decayTimers # <<>> \/ messageQueue # <<>>

(***************************************************************************)
(* Actions.                                                                *)
(***************************************************************************)
\* An HTTP send handler reaches queueMessage (lines 1015 and 1178).
Submit ==
    /\ Len(units) < MaxUnits
    /\ now <= SubmitUntil
    /\ \E s \in queueMessage(Cur, NextUnit(Len(units))) : Apply(s)
    /\ UNCHANGED <<sessionVars, probe, env, workload, now, epoch, nextCleanupAt>>

\* Mutation: after the wait the loop goes back to its test and checks the unit again.
WakeFromRateWaitRecheck(withInterval) ==
    \E i \in DOMAIN loops :
        /\ loops[i].pc = "waitRate"
        /\ Due(loops[i].wakeAt, withInterval)
        /\ \E s \in LoopIteration(Cur, i) : Apply(s)
        /\ UNCHANGED <<sessionVars, probe, env, workload, now, epoch, nextCleanupAt>>

\* The timer of line 318 fires: the loop goes on to the pattern check.
WakeFromRateWait(withInterval) ==
    \E i \in DOMAIN loops :
        /\ loops[i].pc = "waitRate"
        /\ Due(loops[i].wakeAt, withInterval)
        /\ \E s \in PatternCheck(Cur, i) : Apply(s)
        /\ UNCHANGED <<sessionVars, probe, env, workload, now, epoch, nextCleanupAt>>

\* The timer of line 324 fires: the loop goes on to remove the unit from the queue.
WakeFromPatternWait(withInterval) ==
    \E i \in DOMAIN loops :
        /\ loops[i].pc = "waitPattern"
        /\ Due(loops[i].wakeAt, withInterval)
        /\ \E s \in ShiftAndDelay(Cur, i) : Apply(s)
        /\ UNCHANGED <<sessionVars, probe, env, workload, now, epoch, nextCleanupAt>>

\* The timer of line 335 fires: the loop invokes sendFunction.
WakeFromDelay(withInterval) ==
    \E i \in DOMAIN loops :
        /\ loops[i].pc = "waitDelay"
        /\ Due(loops[i].wakeAt, withInterval)
        /\ Apply(InvokeSend(Cur, i))
        /\ UNCHANGED <<sessionVars, probe, env, workload, now, epoch, nextCleanupAt>>

\* sendFunction's promise resolves: lines 340-353, then the next iteration.
SendResolves ==
    \E i \in DOMAIN loops :
        /\ loops[i].pc = "sending"
        /\ \E s \in AfterTry(SendSucceeded(Cur, i), i) : Apply(s)
        /\ UNCHANGED <<sessionVars, probe, env, workload, now, epoch, nextCleanupAt>>

\* sendFunction's promise rejects: lines 355-360, then the next iteration.
SendRejects ==
    \E i \in DOMAIN loops :
        /\ loops[i].pc = "sending"
        /\ \E s \in AfterCatch(SendFailed(Cur, i), i) : Apply(s)
        /\ UNCHANGED <<sessionVars, probe, env, workload, now, epoch, nextCleanupAt>>

\* Mutation: the decrement is not floored at 0 (no Math.max at line 352).
\* Mutation: the callback leaves the counter as it is.
DecayCallbackKeep(count) == count

\* Mutation: the callback empties the window instead of taking one send out of it.
DecayCallbackReset(count) == 0

DecayCallbackNoFloor(count) == count - 1

\* The setTimeout callback of lines 351-353.
DecayCallback(count) == Max(0, count - 1)

DecayTimerFires(withInterval) ==
    /\ decayTimers # <<>>
    /\ Due(decayTimers[1], withInterval)
    /\ messageCountInWindow' = DecayCallback(messageCountInWindow)
    /\ decayTimers' = Tail(decayTimers)
    /\ UNCHANGED <<sessionVars, probe, env, workload, now, epoch, units, messageQueue, isProcessingQueue, lastMessageTime,
                   cooldownUntil, messageHistory, loops, nextCleanupAt, outcome, audit,
                   dispatchLog, added>>

\* Mutation: the handler clears a cooldown that has run out before it reports it.
GetStatusClearing(s) ==
    [state |-> [s EXCEPT !.cooldownUntil = IF @ > now THEN @ ELSE 0],
     body |-> [fn |-> "status",
               queueLength |-> Len(s.messageQueue),
               isProcessing |-> s.isProcessingQueue,
               messageCountInWindow |-> s.messageCountInWindow,
               cooldownUntil |-> IF s.cooldownUntil > now THEN <<s.cooldownUntil>> ELSE <<>>]]

\* GET /status, lines 1329-1350: the antiDetection part of the response; <<>> is null.
GetStatus(s) ==
    [state |-> s,
     body |-> [fn |-> "status",
               queueLength |-> Len(s.messageQueue),
               isProcessing |-> s.isProcessingQueue,
               messageCountInWindow |-> s.messageCountInWindow,
               cooldownUntil |-> IF s.cooldownUntil > now THEN <<s.cooldownUntil>> ELSE <<>>]]

\* A GET /status request is answered.
Status ==
    /\ Apply(GetStatus(Cur).state)
    /\ probe' = GetStatus(Cur).body
    /\ UNCHANGED <<sessionVars, env, workload, now, epoch, nextCleanupAt>>

\* The clock moves on by one tick.
Tick ==
    /\ now + TickMs <= epoch + MaxTicks * TickMs
    /\ NoneDue(FALSE)
    /\ SendsInTime
    /\ Busy
    /\ now' = now + TickMs
    /\ UNCHANGED <<sessionVars, probe, env, workload, epoch, units, messageQueue, isProcessingQueue, lastMessageTime,
                   messageCountInWindow, cooldownUntil, messageHistory, loops, decayTimers,
                   nextCleanupAt, outcome, audit, dispatchLog, added>>

(***************************************************************************)
(* The engine from process start.                                          *)
(***************************************************************************)
\* A client that has reported 'ready' (client.info is set) and no logout under way: the
\* state in which the send handlers accept requests (lines 926, 1089).
LinkedClient == [id |-> 1, info |-> TRUE, initializing |-> FALSE]

SessionLinked ==
    /\ isLoggingOut = FALSE
    /\ isClientDestroyed = FALSE
    /\ client = LinkedClient
    /\ logoutRuns = <<>>
    /\ reconnectTimers = 0
    /\ logoutReplies = <<>>

Init ==
    /\ env \in EnvChoices
    /\ workload \in Workloads
    /\ now = StartTime
    /\ epoch = StartTime
    /\ units = <<>>
    /\ messageQueue = <<>>
    /\ isProcessingQueue = FALSE
    /\ lastMessageTime = 0
    /\ messageCountInWindow = 0
    /\ cooldownUntil = 0
    /\ messageHistory = <<>>
    /\ loops = <<>>
    /\ decayTimers = <<>>
    /\ nextCleanupAt = StartTime + HourMs
    /\ outcome = <<>>
    /\ audit = <<>>
    /\ dispatchLog = <<>>
    /\ added = 0
    /\ probe = NoCall
    /\ SessionLinked

\* The hourly cleanup of line 1678 lies beyond the horizon of Spec (MaxTicks ticks).
Next ==
    \/ Submit
    \/ WakeFromRateWait(FALSE)
    \/ WakeFromPatternWait(FALSE)
    \/ WakeFromDelay(FALSE)
    \/ SendResolves
    \/ SendRejects
    \/ DecayTimerFires(FALSE)
    \/ Tick

Spec == Init /\ [][Next]_vars

(***************************************************************************)
(* The engine from process start, with GET /status requests answered at    *)
(* any moment, under one configuration and one request stream.             *)
(***************************************************************************)
SInit ==
    /\ Init
    /\ env = FastEnv
    /\ workload = <<UnitA, UnitB>>

SNext ==
    \/ Next
    \/ Status

StatusSpec == SInit /\ [][SNext]_vars

(***************************************************************************)
(* The engine a day after process start, its history full or one short of  *)
(* full.  The entries were sent EntryGapMs apart, the last one an hour     *)
(* ago, except the first `old` ones, which date from process start; every  *)
(* decay timer of these sends has fired, and the cleanup of line 1678 has  *)
(* just run for the 24th time.                                             *)
(***************************************************************************)
EntryGapMs == HourMs \div 100
OldEntries == PatternThreshold - 1

HistoryAfterADay(size, old) ==
    [i \in 1..size |->
        LET item == workload[((i - 1) % Len(workload)) + 1]
        IN  [recipientId |-> item.recipientId,
             message |-> Substring0(item.message, PrefixLen),
             hasMedia |-> item.hasMedia,
             timestamp |-> IF i <= old
                           THEN StartTime + (i - 1) * EntryGapMs
                           ELSE StartTime + MaxAgeMs - HourMs - (size - i) * EntryGapMs,
             seq |-> i]]

HInit ==
    /\ env = SteadyEnv
    /\ workload = <<UnitA, UnitB>>
    /\ now = StartTime + MaxAgeMs
    /\ epoch = now
    /\ units = <<>>
    /\ messageQueue = <<>>
    /\ isProcessingQueue = FALSE
    /\ \E size \in {MAX_HISTORY_SIZE - 1, MAX_HISTORY_SIZE} :
          /\ messageHistory = HistoryAfterADay(size, OldEntries)
          /\ added = size
    /\ lastMessageTime = now - HourMs
    /\ messageCountInWindow = 0
    /\ cooldownUntil = 0
    /\ loops = <<>>
    /\ decayTimers = <<>>
    /\ nextCleanupAt = now + HourMs
    /\ outcome = <<>>
    /\ audit = <<>>
    /\ dispatchLog = <<>>
    /\ probe = NoCall
    /\ SessionLinked

\* The setInterval callback of lines 1678-1692.
CleanupCallback(history) ==
    LET kept == SelectSeq(history, LAMBDA m : ~(now - m.timestamp > MaxAgeMs))
    IN  IF Len(kept) > MAX_HISTORY_SIZE
        THEN SubSeq(kept, Len(kept) - MAX_HISTORY_SIZE + 1, Len(kept))
        ELSE kept

HistoryCleanup ==
    /\ Due(nextCleanupAt, TRUE)
    /\ messageHistory' = CleanupCallback(messageHistory)
    /\ nextCleanupAt' = now + HourMs
    /\ UNCHANGED <<sessionVars, probe, env, workload, now, epoch, units, messageQueue, isProcessingQueue,
                   lastMessageTime, messageCountInWindow, cooldownUntil, loops, decayTimers,
                   outcome, audit, dispatchLog, added>>

\* An hour goes by while the engine has nothing to do.
HourPasses ==
    /\ now + HourMs <= epoch + MaxHours * HourMs
    /\ ~Busy
    /\ now' = now + HourMs
    /\ UNCHANGED <<sessionVars, probe, env, workload, epoch, units, messageQueue, isProcessingQueue,
                   lastMessageTime, messageCountInWindow, cooldownUntil, messageHistory, loops,
                   decayTimers, nextCleanupAt, outcome, audit, dispatchLog, added>>

HNext ==
    \/ Submit
    \/ WakeFromRateWait(TRUE)
    \/ WakeFromPatternWait(TRUE)
    \/ WakeFromDelay(TRUE)
    \/ SendResolves
    \/ SendRejects
    \/ DecayTimerFires(TRUE)
    \/ Tick
    \/ HourPasses
    \/ HistoryCleanup

HistSpec == HInit /\ [][HNext]_vars

\* Delays that are no multiples of 100 ms, and a cooldown period between them and the
\* next multiple of 100 ms.
OddEnv ==
    [MIN_MESSAGE_DELAY |-> <<951>>, MAX_MESSAGE_DELAY |-> <<999>>, COOLDOWN_PERIOD |-> <<960>>,
     MAX_MESSAGES_BEFORE_COOLDOWN |-> <<2>>, MEDIA_DELAY_MULTIPLIER |-> <<>>]

\* The engine from process start, under delays that get rounded up or under short ones.
WaitInit ==
    /\ env \in {OddEnv, FastEnv}
    /\ workload = <<UnitA, UnitC>>
    /\ now = StartTime
    /\ epoch = StartTime
    /\ units = <<>>
    /\ messageQueue = <<>>
    /\ isProcessingQueue = FALSE
    /\ lastMessageTime = 0
    /\ messageCountInWindow = 0
    /\ cooldownUntil = 0
    /\ messageHistory = <<>>
    /\ loops = <<>>
    /\ decayTimers = <<>>
    /\ nextCleanupAt = StartTime + HourMs
    /\ outcome = <<>>
    /\ audit = <<>>
    /\ dispatchLog = <<>>
    /\ added = 0
    /\ probe = NoCall
    /\ SessionLinked

WaitSpec == WaitInit /\ [][Next]_vars

\* The engine over hours, with GET /status arriving at any moment.
WNext == HNext \/ Status

WriterSpec == HInit /\ [][WNext]_vars

(***************************************************************************)
(* The engine from process start under one configuration and one request   *)
(* stream, with every timer firing, every sendFunction call settling and    *)
(* the clock moving on.                                                     *)
(***************************************************************************)
LInit ==
    /\ Init
    /\ env = FastEnv
    /\ workload = <<UnitA, UnitB>>

Fairness ==
    /\ WF_vars(WakeFromRateWait(FALSE))
    /\ WF_vars(WakeFromPatternWait(FALSE))
    /\ WF_vars(WakeFromDelay(FALSE))
    /\ WF_vars(DecayTimerFires(FALSE))
    /\ WF_vars(SendResolves \/ SendRejects)
    /\ WF_vars(Tick)

LiveSpec == LInit /\ [][Next]_vars /\ Fairness

(***************************************************************************)
(* The engine from process start under one configuration and one request   *)
(* stream, where a sendFunction call may take any time or never settle.     *)
(***************************************************************************)
StallInit ==
    /\ Init
    /\ env = FastEnv
    /\ workload = <<UnitA, UnitB>>

\* The clock moves on by one tick, whatever time a sendFunction call has been running.
StallTick ==
    /\ now + TickMs <= epoch + MaxTicks * TickMs
    /\ NoneDue(FALSE)
    /\ Busy
    /\ now' = now + TickMs
    /\ UNCHANGED <<sessionVars, probe, env, workload, epoch, units, messageQueue, isProcessingQueue,
                   lastMessageTime, messageCountInWindow, cooldownUntil, messageHistory, loops,
                   decayTimers, nextCleanupAt, outcome, audit, dispatchLog, added>>

StallNext ==
    \/ Submit
    \/ WakeFromRateWait(FALSE)
    \/ WakeFromPatternWait(FALSE)
    \/ WakeFromDelay(FALSE)
    \/ SendResolves
    \/ SendRejects
    \/ DecayTimerFires(FALSE)
    \/ StallTick

StallSpec == StallInit /\ [][StallNext]_vars

(***************************************************************************)
(* The session: POST /api/logout, the events of the client and the timers  *)
(* they set.  Time is left out: a pending timer or promise may fire at any *)
(* moment, except that of two timers set in one turn the shorter is first. *)
(***************************************************************************)
MaxLogoutPosts == 3
MaxClients == 3
MaxReconnects == 1

AlreadyInProgress == "Logout already in progress. Please wait..."
NoActiveSession == "No active session to logout"
LoggingOut == "Logging out... Please wait for new QR code."

\* reason values for which the 'disconnected' handler reconnects (line 500).
ReconnectReasons == {"NAVIGATION", "CONFLICT", "LOGGED_OUT"}
DisconnectReasons == {"NAVIGATION", "TIMEOUT"}

\* new Client(clientConfig); setupClientEvents(); client.initialize()
NewClient(old) == [id |-> old.id + 1, info |-> FALSE, initializing |-> TRUE]

\* client.destroy(): the browser of the object is closed, it reports 'ready' no more.
Destroyed(c) == [c EXCEPT !.initializing = FALSE]

Reply(answer) ==
    logoutReplies' = Append(logoutReplies, [answer |-> answer, running |-> Len(logoutRuns)])

\* POST /api/logout up to the first await of its async block (lines 1446-1486).
PostLogout ==
    /\ Len(logoutReplies) < MaxLogoutPosts
    /\ IF isLoggingOut
       THEN /\ Reply(AlreadyInProgress)
            /\ UNCHANGED <<isLoggingOut, isClientDestroyed, logoutRuns>>
       ELSE IF ~client.info
       THEN /\ Reply(NoActiveSession)
            /\ UNCHANGED <<isLoggingOut, isClientDestroyed, logoutRuns>>
       ELSE /\ isLoggingOut' = TRUE
            /\ isClientDestroyed' = TRUE
            /\ Reply(LoggingOut)
            /\ logoutRuns' = Append(logoutRuns, [pc |-> "logout", createPending |-> FALSE])
    /\ UNCHANGED <<engineVars, client, reconnectTimers>>

\* The race of client.logout() with its 10 s timeout settles, either way (lines 1483-1490);
\* client.destroy() is called.
LogoutSettles(i) ==
    /\ logoutRuns[i].pc = "logout"
    /\ logoutRuns' = [logoutRuns EXCEPT ![i].pc = "destroy"]
    /\ client' = Destroyed(client)
    /\ UNCHANGED <<engineVars, isLoggingOut, isClientDestroyed, reconnectTimers, logoutReplies>>

\* The race of client.destroy() with its timeout settles (lines 1493-1500);
\* clearAuthSession() is called.
DestroySettles(i) ==
    /\ logoutRuns[i].pc = "destroy"
    /\ logoutRuns' = [logoutRuns EXCEPT ![i].pc = "clearAuthSession"]
    /\ UNCHANGED <<engineVars, isLoggingOut, isClientDestroyed, client, reconnectTimers,
                   logoutReplies>>

\* clearAuthSession() resolves (it catches its own errors); the two timers are set
\* (lines 1503-1527).
ClearSettles(i) ==
    /\ logoutRuns[i].pc = "clearAuthSession"
    /\ logoutRuns' = [logoutRuns EXCEPT ![i] = [pc |-> "timers", createPending |-> TRUE]]
    /\ UNCHANGED <<engineVars, isLoggingOut, isClientDestroyed, client, reconnectTimers,
                   logoutReplies>>

\* The 1500 ms timer (lines 1516-1527): a new client, or the catch block if that throws.
CreateClientTimer(i) ==
    /\ logoutRuns[i].pc = "timers"
    /\ logoutRuns[i].createPending
    /\ client.id < MaxClients
    /\ logoutRuns' = [logoutRuns EXCEPT ![i].createPending = FALSE]
    /\ \/ /\ client' = NewClient(client)
          /\ UNCHANGED <<isLoggingOut, isClientDestroyed>>
       \/ /\ isLoggingOut' = FALSE
          /\ isClientDestroyed' = FALSE
          /\ UNCHANGED client
    /\ UNCHANGED <<engineVars, reconnectTimers, logoutReplies>>

\* The 2000 ms timer (lines 1510-1513), the last step of a logout.
FlagResetTimer(i) ==
    /\ logoutRuns[i].pc = "timers"
    /\ ~logoutRuns[i].createPending
    /\ isClientDestroyed' = FALSE
    /\ isLoggingOut' = FALSE
    /\ logoutRuns' = RemoveAt(logoutRuns, i)
    /\ UNCHANGED <<engineVars, client, reconnectTimers, logoutReplies>>

\* The client reports 'ready' (lines 475-483); client.info is set by then.
ClientReady ==
    /\ client.initializing
    /\ client' = [client EXCEPT !.info = TRUE, !.initializing = FALSE]
    /\ isClientDestroyed' = FALSE
    /\ isLoggingOut' = FALSE
    /\ UNCHANGED <<engineVars, logoutRuns, reconnectTimers, logoutReplies>>

\* The client reports 'disconnected' (lines 490-508).
ClientDisconnected ==
    /\ client.info
    /\ \E reason \in DisconnectReasons :
          /\ isClientDestroyed' = IF ~isLoggingOut THEN FALSE ELSE isClientDestroyed
          /\ IF ~isLoggingOut /\ reason \in ReconnectReasons
             THEN /\ reconnectTimers < MaxReconnects
                  /\ reconnectTimers' = reconnectTimers + 1
             ELSE UNCHANGED reconnectTimers
    /\ UNCHANGED <<engineVars, isLoggingOut, client, logoutRuns, logoutReplies>>

\* The 3000 ms timer of line 502 and reinitializeClient (lines 551-579).
ReconnectTimer ==
    /\ reconnectTimers > 0
    /\ reconnectTimers' = reconnectTimers - 1
    /\ IF ~isLoggingOut /\ ~isClientDestroyed
       THEN /\ client.id < MaxClients
            /\ isClientDestroyed' = TRUE
            /\ client' = NewClient(client)
       ELSE UNCHANGED <<isClientDestroyed, client>>
    /\ UNCHANGED <<engineVars, isLoggingOut, logoutRuns, logoutReplies>>

\* The process at load (lines 190-191, 448, 1553): the first client is initializing.
LogoutInit ==
    /\ env = DefaultEnv
    /\ workload = <<UnitA>>
    /\ now = StartTime
    /\ epoch = StartTime
    /\ units = <<>>
    /\ messageQueue = <<>>
    /\ isProcessingQueue = FALSE
    /\ lastMessageTime = 0
    /\ messageCountInWindow = 0
    /\ cooldownUntil = 0
    /\ messageHistory = <<>>
    /\ loops = <<>>
    /\ decayTimers = <<>>
    /\ nextCleanupAt = StartTime + HourMs
    /\ outcome = <<>>
    /\ audit = <<>>
    /\ dispatchLog = <<>>
    /\ added = 0
    /\ probe = NoCall
    /\ isLoggingOut = FALSE
    /\ isClientDestroyed = FALSE
    /\ client = [id |-> 1, info |-> FALSE, initializing |-> TRUE]
    /\ logoutRuns = <<>>
    /\ reconnectTimers = 0
    /\ logoutReplies = <<>>

LogoutNext ==
    \/ PostLogout
    \/ \E i \in DOMAIN logoutRuns : LogoutSettles(i)
    \/ \E i \in DOMAIN logoutRuns : DestroySettles(i)
    \/ \E i \in DOMAIN logoutRuns : ClearSettles(i)
    \/ \E i \in DOMAIN logoutRuns : CreateClientTimer(i)
    \/ \E i \in DOMAIN logoutRuns : FlagResetTimer(i)
    \/ ClientReady
    \/ ClientDisconnected
    \/ ReconnectTimer

LogoutSpec == LogoutInit /\ [][LogoutNext]_vars

(***************************************************************************)
(* The engine and the session together: send requests are accepted while   *)
(* the client is linked, and one logout is requested at some moment.        *)
(***************************************************************************)
\* POST /send-group or /send-contact passes the checks of lines 926-935 (1089-1098) and
\* reaches queueMessage.
SendRequest ==
    /\ ~(isClientDestroyed \/ isLoggingOut)
    /\ client.info
    /\ Submit

\* The first POST /api/logout of the run.
LogoutRequest ==
    /\ logoutReplies = <<>>
    /\ PostLogout

SessionInit ==
    /\ Init
    /\ env = FastEnv
    /\ workload = <<UnitA, UnitB>>

SessionNext ==
    \/ SendRequest
    \/ WakeFromRateWait(FALSE)
    \/ WakeFromPatternWait(FALSE)
    \/ WakeFromDelay(FALSE)
    \/ SendResolves
    \/ SendRejects
    \/ DecayTimerFires(FALSE)
    \/ Tick
    \/ LogoutRequest
    \/ \E i \in DOMAIN logoutRuns : LogoutSettles(i)
    \/ \E i \in DOMAIN logoutRuns : DestroySettles(i)
    \/ \E i \in DOMAIN logoutRuns : ClearSettles(i)
    \/ \E i \in DOMAIN logoutRuns : CreateClientTimer(i)
    \/ \E i \in DOMAIN logoutRuns : FlagResetTimer(i)
    \/ ClientReady

SessionSpec == SessionInit /\ [][SessionNext]_vars

(***************************************************************************)
(* The functions of the engine called one at a time, for every              *)
(* configuration and rate state of a small range.  Date.now() is the wall   *)
(* clock, which may be set back, so a call of shouldWait can find a         *)
(* cooldown still running.                                                  *)
(***************************************************************************)
DelayChoices == {0, 1000, 1049, 1051, 2100}

CallEnvs ==
    { [MIN_MESSAGE_DELAY |-> <<lo>>, MAX_MESSAGE_DELAY |-> <<hi>>, COOLDOWN_PERIOD |-> <<3000>>,
       MAX_MESSAGES_BEFORE_COOLDOWN |-> <<2>>, MEDIA_DELAY_MULTIPLIER |-> mult]
      : lo \in DelayChoices, hi \in DelayChoices, mult \in {<<>>, <<20>>} }

CInit ==
    /\ env \in CallEnvs
    /\ workload = <<UnitA>>
    /\ now = StartTime
    /\ epoch = StartTime
    /\ units = <<>>
    /\ messageQueue = <<>>
    /\ isProcessingQueue = FALSE
    /\ lastMessageTime \in {0, StartTime - 5 * TickMs, StartTime - TickMs}
    /\ messageCountInWindow \in 0..2
    /\ cooldownUntil \in {0, StartTime - TickMs, StartTime + 2 * TickMs}
    /\ messageHistory = <<>>
    /\ loops = <<>>
    /\ decayTimers = <<>>
    /\ nextCleanupAt = StartTime + HourMs
    /\ outcome = <<>>
    /\ audit = <<>>
    /\ dispatchLog = <<>>
    /\ added = 0
    /\ probe = NoCall
    /\ SessionLinked

\* getHumanDelay(hasMedia) is called and returns.
CallGetHumanDelay ==
    /\ \E hasMedia \in BOOLEAN, k \in 0..(RandDen - 1) :
          probe' = [fn |-> "getHumanDelay", hasMedia |-> hasMedia, k |-> k,
                    delay |-> getHumanDelay(hasMedia, k)]
    /\ UNCHANGED <<sessionVars, env, workload, now, epoch, units, messageQueue, isProcessingQueue,
                   lastMessageTime, messageCountInWindow, cooldownUntil, messageHistory, loops,
                   decayTimers, nextCleanupAt, outcome, audit, dispatchLog, added>>

\* shouldWait() is called and returns.
CallShouldWait ==
    /\ \E k \in 0..(RandDen - 1) :
          LET w == shouldWait(Cur, k)
          IN  /\ cooldownUntil' = w.cooldownUntil
              /\ messageCountInWindow' = w.messageCountInWindow
              /\ probe' = [fn |-> "shouldWait", k |-> k, wait |-> w.wait,
                            before |-> [cooldownUntil |-> cooldownUntil,
                                        messageCountInWindow |-> messageCountInWindow,
                                        lastMessageTime |-> lastMessageTime]]
    /\ UNCHANGED <<sessionVars, env, workload, now, epoch, units, messageQueue, isProcessingQueue,
                   lastMessageTime, messageHistory, loops, decayTimers, nextCleanupAt, outcome,
                   audit, dispatchLog, added>>

CNext ==
    \/ CallGetHumanDelay
    \/ CallShouldWait

CallSpec == CInit /\ [][CNext]_vars

(***************************************************************************)
(* addToHistory and detectSuspiciousPattern called one at a time, with     *)
(* messages that agree or differ around their 50th character.              *)
(***************************************************************************)
MaxEntries == 3

Messages ==
    { Empty,
      Short,
      << <<"a", PrefixLen - 1>> >>,
      << <<"a", PrefixLen>> >>,
      << <<"a", PrefixLen - 1>>, <<"x", 1>> >>,
      << <<"a", PrefixLen - 1>>, <<"x", 1>>, <<"y", 1>> >>,
      << <<"a", PrefixLen - 1>>, <<"x", 2>> >>,
      LongA,
      LongB }

\* Recipients that differ from entry to entry, so that only the content can repeat.
EntryRecipient(n) == <<"g1", "g2", "g3", "g4", "g5">>[n]

DInit ==
    /\ env = DefaultEnv
    /\ workload = <<UnitA>>
    /\ now = StartTime
    /\ epoch = StartTime
    /\ units = <<>>
    /\ messageQueue = <<>>
    /\ isProcessingQueue = FALSE
    /\ lastMessageTime = 0
    /\ messageCountInWindow = 0
    /\ cooldownUntil = 0
    /\ messageHistory = <<>>
    /\ loops = <<>>
    /\ decayTimers = <<>>
    /\ nextCleanupAt = StartTime + HourMs
    /\ outcome = <<>>
    /\ audit = <<>>
    /\ dispatchLog = <<>>
    /\ added = 0
    /\ probe = NoCall
    /\ SessionLinked

\* addToHistory(recipientId, message, hasMedia) is called (line 343); units keeps what
\* it was called with.
CallAddToHistory ==
    /\ Len(messageHistory) < MaxEntries
    /\ \E message \in Messages :
          LET item == [recipientId |-> EntryRecipient(Len(units) + 1), message |-> message,
                       hasMedia |-> (message = Empty), sendFunction |-> ReturnsNothing]
          IN  /\ messageHistory' = addToHistory(messageHistory, item.recipientId, item.message,
                                                item.hasMedia, added + 1)
              /\ units' = Append(units, item)
              /\ added' = added + 1
    /\ UNCHANGED <<sessionVars, probe, env, workload, now, epoch, messageQueue,
                   isProcessingQueue, lastMessageTime, messageCountInWindow, cooldownUntil,
                   loops, decayTimers, nextCleanupAt, outcome, audit, dispatchLog>>

\* detectSuspiciousPattern(recipientId, message) is called (line 322) and returns.
CallDetectSuspiciousPattern ==
    /\ \E message \in Messages :
          probe' = [fn |-> "detectSuspiciousPattern",
                    message |-> message,
                    entries |-> Len(messageHistory),
                    matches |-> Len(recentMessages(messageHistory, message)),
                    verdict |-> detectSuspiciousPattern(messageHistory,
                                                        EntryRecipient(MaxEntries + 1), message)]
    /\ UNCHANGED <<sessionVars, env, workload, now, epoch, units, messageQueue,
                   isProcessingQueue, lastMessageTime, messageCountInWindow, cooldownUntil,
                   messageHistory, loops, decayTimers, nextCleanupAt, outcome, audit,
                   dispatchLog, added>>

DNext ==
    \/ CallAddToHistory
    \/ CallDetectSuspiciousPattern

DigestSpec == DInit /\ [][DNext]_vars

TypeOK ==
    /\ Len(units) <= MaxUnits
    /\ messageCountInWindow \in Int
    /\ \A i \in DOMAIN loops : loops[i].pc \in {"waitRate", "waitPattern", "waitDelay", "sending"}

(***************************************************************************)
(* Properties.                                                             *)
(***************************************************************************)
cfgNow == ANTI_DETECTION_CONFIG
Digest(u) == Substring0(units[u].message, PrefixLen)
Dispatched(u) == audit[u].execs > 0
DispatchTime(k) == audit[dispatchLog[k]].dispatchedAt
SubmittedTogether(n) == \A u \in 1..n : audit[u].submittedAt = epoch
Succeeded(n) == \A u \in 1..n : audit[u].result = "ok"

\* C1: the sendFunctions are invoked in the order in which the units were submitted:
\* the k-th invocation is that of the k-th unit submitted.
FifoDispatch == \A k \in DOMAIN dispatchLog : dispatchLog[k] = k

\* C1 witness: every unit of a run was dispatched, a media unit and a flagged unit among them.
FifoDispatchWitness ==
    /\ Len(dispatchLog) = MaxUnits
    /\ \E u \in DOMAIN units : units[u].hasMedia
    /\ \E u \in DOMAIN units : audit[u].flags > 0

\* C2: at most one invocation of processMessageQueue is in its loop, hence at most one
\* sendFunction call is in flight.
SingleWorker ==
    /\ Len(loops) <= 1
    /\ Cardinality({ i \in DOMAIN loops : loops[i].pc = "sending" }) <= 1

\* C2 witness: two units were submitted while the one loop was awaiting a sendFunction call.
SingleWorkerWitness ==
    /\ Len(loops) = 1
    /\ loops[1].pc = "sending"
    /\ Len(messageQueue) >= 2

\* C3: a rejected sendFunction rejects its own unit's promise, every promise is settled
\* by its own unit's result, and the loop is still there for the units not yet dispatched.
FailureIsolation ==
    /\ \A k \in DOMAIN units :
          audit[k].result = "fail" =>
            /\ outcome[k] = "rejected"
            /\ (\E j \in DOMAIN units : j > k /\ ~Dispatched(j)) =>
                  /\ Len(loops) = 1
                  /\ isProcessingQueue
                  /\ loops[1].queueItem > k
    /\ \A j \in DOMAIN units :
          /\ outcome[j] = "resolved" <=> audit[j].result = "ok"
          /\ outcome[j] = "rejected" <=> audit[j].result = "fail"

\* C3 witness: a unit failed and the unit after it was sent and resolved.
FailureIsolationWitness ==
    \E k \in DOMAIN units :
        /\ audit[k].result = "fail"
        /\ k + 1 \in DOMAIN units
        /\ audit[k + 1].dispatchedAt >= audit[k].settledAt
        /\ outcome[k + 1] = "resolved"

\* C4 (as claimed): a rejected send updates the rate state like a successful one: the
\* tracking of lines 341-353 ran when it settled, and lastMessageTime is not older.
FailedSendCounts ==
    \A u \in DOMAIN units :
        audit[u].result = "fail" =>
            /\ audit[u].recordedAt = audit[u].settledAt
            /\ lastMessageTime >= audit[u].settledAt

ScenarioTiming ==
    (/\ env = ScenarioEnv
     /\ Len(dispatchLog) >= 3
     /\ FifoDispatch
     /\ SubmittedTogether(3)
     /\ Succeeded(2)
     /\ \A u, v \in 1..3 :
           u # v => units[u].recipientId # units[v].recipientId /\ Digest(u) # Digest(v))
    => /\ DispatchTime(2) - DispatchTime(1) < 1000
       /\ DispatchTime(3) - DispatchTime(2) >= 1000

SameDigestBefore(u) == { v \in 1..u : Digest(v) = Digest(u) }
SameRecipientBefore(u) == { v \in 1..u : units[v].recipientId = units[u].recipientId }

\* C7 (as claimed): the 3rd unit of one digest submitted within 60 seconds, the first two
\* sent successfully, is dispatched only after a pattern penalty.
ThirdRepeatPenalised ==
    \A u \in DOMAIN units :
        (/\ Dispatched(u)
         /\ Cardinality(SameDigestBefore(u)) = PatternThreshold
         /\ \A v \in SameDigestBefore(u) :
               /\ audit[u].submittedAt - audit[v].submittedAt < RepeatWindowMs
               /\ v # u => audit[v].result = "ok")
        => audit[u].flags >= 1

\* C7 (amended): a unit whose pattern check finds 3 or more sends of its digest in the
\* last 60 seconds of the history (so the 4th of them at the earliest) is flagged once and
\* dispatched at least cooldownPeriod after the check; a unit whose check finds fewer, and
\* fewer than 3 sends to its recipient in the last 10 seconds, is not flagged.
RepeatPenalised ==
    \A u \in DOMAIN units :
        audit[u].patternChecks > 0 =>
            /\ audit[u].repeatsSeen >= PatternThreshold =>
                  /\ audit[u].flags = 1
                  /\ Dispatched(u) =>
                        audit[u].dispatchedAt >= audit[u].patternCheckedAt + cfgNow.cooldownPeriod
            /\ (audit[u].repeatsSeen < PatternThreshold
                /\ audit[u].recipientSeen < PatternThreshold) => audit[u].flags = 0
            /\ audit[u].repeatsSeen <= Cardinality(SameDigestBefore(u)) - 1

\* C7 witness: a dispatched unit was flagged for its digest alone.
RepeatPenalisedWitness ==
    \E u \in DOMAIN units :
        /\ Dispatched(u)
        /\ audit[u].repeatsSeen >= PatternThreshold
        /\ audit[u].recipientSeen < PatternThreshold
        /\ audit[u].flags = 1

\* C8 (as claimed): the 3rd unit to one recipient submitted within 10 seconds, the first
\* two sent successfully, is dispatched only after a pattern penalty.
ThirdToRecipientPenalised ==
    \A u \in DOMAIN units :
        (/\ Dispatched(u)
         /\ Cardinality(SameRecipientBefore(u)) = PatternThreshold
         /\ \A v \in SameRecipientBefore(u) :
               /\ audit[u].submittedAt - audit[v].submittedAt < RecipientWindowMs
               /\ v # u => audit[v].result = "ok")
        => audit[u].flags >= 1

\* C8 (amended): a unit whose pattern check finds 3 or more sends to its recipient in the
\* last 10 seconds of the history (so the 4th of them at the earliest) is flagged once and
\* dispatched at least cooldownPeriod after the check.
BurstPenalised ==
    \A u \in DOMAIN units :
        audit[u].patternChecks > 0 =>
            /\ audit[u].recipientSeen >= PatternThreshold =>
                  /\ audit[u].flags = 1
                  /\ Dispatched(u) =>
                        audit[u].dispatchedAt >= audit[u].patternCheckedAt + cfgNow.cooldownPeriod
            /\ audit[u].recipientSeen <= Cardinality(SameRecipientBefore(u)) - 1

\* C8 witness: a dispatched unit was flagged for its recipient alone.
BurstPenalisedWitness ==
    \E u \in DOMAIN units :
        /\ Dispatched(u)
        /\ audit[u].recipientSeen >= PatternThreshold
        /\ audit[u].repeatsSeen < PatternThreshold
        /\ audit[u].flags = 1

\* C9: a flagged unit is flagged once, stays with the worker, waits cooldownPeriod from
\* the pattern check, is then sent once, and its promise settles by the result of that send.
FlaggedOnlyDelayed ==
    \A u \in DOMAIN units :
        audit[u].flags >= 1 =>
            /\ audit[u].flags = 1
            /\ outcome[u] = "pending" => \E i \in DOMAIN loops : loops[i].queueItem = u
            /\ \A i \in DOMAIN loops :
                  (loops[i].queueItem = u /\ loops[i].pc = "waitPattern") =>
                      /\ loops[i].wakeAt = audit[u].patternCheckedAt + cfgNow.cooldownPeriod
                      /\ messageQueue # <<>> /\ messageQueue[1] = u
            /\ Dispatched(u) =>
                  audit[u].dispatchedAt >= audit[u].patternCheckedAt + cfgNow.cooldownPeriod
            /\ outcome[u] # "pending" =>
                  /\ audit[u].execs = 1
                  /\ audit[u].settledAt >= audit[u].dispatchedAt
                  /\ outcome[u] = "resolved" <=> audit[u].result = "ok"
                  /\ outcome[u] = "rejected" <=> audit[u].result = "fail"

\* C9 witness: a flagged unit was sent and its promise settled.
FlaggedOnlyDelayedWitness ==
    \E u \in DOMAIN units : audit[u].flags = 1 /\ outcome[u] # "pending"

\* C10: the history never holds more than MAX_HISTORY_SIZE entries, and it holds the
\* entries added last, in the order they were added: the oldest ones are those removed.
HistoryBounded ==
    /\ Len(messageHistory) <= MAX_HISTORY_SIZE
    /\ \A i \in 1..(Len(messageHistory) - 1) :
          messageHistory[i + 1].seq = messageHistory[i].seq + 1
    /\ messageHistory # <<>> => messageHistory[Len(messageHistory)].seq = added

\* C10 witness: entries were added to a full history.
HistoryBoundedWitness ==
    /\ Len(messageHistory) = MAX_HISTORY_SIZE
    /\ added >= MAX_HISTORY_SIZE + 2
    /\ messageHistory[1].seq = added - MAX_HISTORY_SIZE + 1

InQueue(u) == \E i \in DOMAIN messageQueue : messageQueue[i] = u
HeldBy(u, pcs) == \E i \in DOMAIN loops : loops[i].queueItem = u /\ loops[i].pc \in pcs

\* C11: sendFunction is invoked at most once for every unit: a unit that was dispatched
\* has left the queue for good, a unit whose send settled was dispatched exactly once, and
\* a unit not yet dispatched is still in the queue or with the worker in its human delay.
ExecutedOnce ==
    \A u \in DOMAIN units :
        /\ audit[u].execs <= 1
        /\ Cardinality({ k \in DOMAIN dispatchLog : dispatchLog[k] = u }) = audit[u].execs
        /\ audit[u].execs = 1 => ~InQueue(u)
        /\ audit[u].result # "none" => audit[u].execs = 1
        /\ audit[u].execs = 0 => InQueue(u) \/ HeldBy(u, {"waitDelay"})

\* C11 witness: the worker is done with a run in which a send failed, a unit waited for
\* a pattern penalty and a unit waited for a cooldown, and a unit was sent after each.
ExecutedOnceWitness ==
    /\ Len(dispatchLog) = MaxUnits
    /\ loops = <<>>
    /\ \E u \in 1..(MaxUnits - 1) : audit[u].result = "fail"
    /\ \E u \in DOMAIN units : audit[u].flags > 0 \/ audit[u].cooldownAt > 0

\* C12: resolve or reject is called once per unit at most, by the worker, when the unit's
\* sendFunction call has settled; the promise of a unit that is queued, waiting or being
\* sent is pending.
SettledOnce ==
    \A u \in DOMAIN units :
        /\ audit[u].settles <= 1
        /\ outcome[u] # "pending" <=> audit[u].settles = 1
        /\ audit[u].settles = 1 =>
              /\ audit[u].execs = 1
              /\ audit[u].result # "none"
              /\ audit[u].settledAt >= audit[u].dispatchedAt
        /\ (InQueue(u) \/ HeldBy(u, {"waitRate", "waitPattern", "waitDelay", "sending"}))
              => outcome[u] = "pending"

\* C12 witness: one promise is resolved, one is rejected, one unit is being sent and one
\* is queued behind it.
SettledOnceWitness ==
    /\ \E u \in DOMAIN units : outcome[u] = "resolved"
    /\ \E u \in DOMAIN units : outcome[u] = "rejected"
    /\ \E u \in DOMAIN units : HeldBy(u, {"sending"})
    /\ \E u \in DOMAIN units : InQueue(u) /\ audit[u].settles = 0

\* C13 (as claimed): the promise of a unit whose sendFunction resolved with r is resolved
\* with r.
ResolvesWithResult ==
    \A u \in DOMAIN units :
        audit[u].result = "ok" => outcome[u] = "resolved" /\ audit[u].value = audit[u].returned

\* C14: the promise of a unit whose sendFunction rejected with e is rejected with e, the
\* unit is not in the queue again, and no promise is rejected but by its own unit's error.
RejectsVerbatim ==
    \A u \in DOMAIN units :
        /\ audit[u].result = "fail" =>
              /\ outcome[u] = "rejected"
              /\ audit[u].value = units[u].sendFunction.rejectsWith
              /\ ~InQueue(u)
              /\ ~HeldBy(u, {"waitRate", "waitPattern", "waitDelay", "sending"})
        /\ outcome[u] = "rejected" =>
              audit[u].result = "fail" /\ audit[u].value = audit[u].returned

\* C14 witness: two units with different errors were rejected, each with its own, and a
\* unit sent between or after them was resolved.
RejectsVerbatimWitness ==
    \E u, v, w \in DOMAIN units :
        /\ outcome[u] = "rejected" /\ outcome[v] = "rejected" /\ outcome[w] = "resolved"
        /\ audit[u].value # audit[v].value
        /\ u < w

\* A tunable as it was given: the default when the variable is unset.
Given(v, d) == IF v = <<>> THEN d ELSE v[1]
GivenMin == Given(env.MIN_MESSAGE_DELAY, DefaultMinDelay)
GivenMax == Given(env.MAX_MESSAGE_DELAY, DefaultMaxDelay)
GivenTenths == Given(env.MEDIA_DELAY_MULTIPLIER, DefaultMultiplierTenths)

\* C15 (as claimed): for given tunables 0 <= minDelay <= maxDelay, getHumanDelay(false) is
\* a multiple of 100 in [minDelay, maxDelay] and getHumanDelay(true) is a multiple of 100
\* in [minDelay * mult, maxDelay * mult].
DelayWithinRange ==
    (probe.fn = "getHumanDelay" /\ 0 <= GivenMin /\ GivenMin <= GivenMax) =>
        /\ probe.delay % RoundStep = 0
        /\ ~probe.hasMedia => GivenMin <= probe.delay /\ probe.delay <= GivenMax
        /\ probe.hasMedia =>
              /\ GivenMin * GivenTenths <= probe.delay * 10
              /\ probe.delay * 10 <= GivenMax * GivenTenths

\* C15 (amended): getHumanDelay returns the multiple of 100 nearest to a value between
\* the minDelay and maxDelay of ANTI_DETECTION_CONFIG (times the multiplier for media): it
\* is more than Lo - 50 and at most Hi + 50 for the ends Lo and Hi of that range, and it is
\* within the range when both ends are multiples of 100.
DelayNearRange ==
    probe.fn = "getHumanDelay" =>
        LET tenths == IF probe.hasMedia THEN cfgNow.mediaDelayMultiplierTenths ELSE 10
            Lo == Min(cfgNow.minDelay, cfgNow.maxDelay) * tenths
            Hi == Max(cfgNow.minDelay, cfgNow.maxDelay) * tenths
            half == 10 * (RoundStep \div 2)
        IN  /\ probe.delay % RoundStep = 0
            /\ Lo - half < probe.delay * 10
            /\ probe.delay * 10 <= Hi + half
            /\ (Lo % (10 * RoundStep) = 0 /\ Hi % (10 * RoundStep) = 0) =>
                   Lo <= probe.delay * 10 /\ probe.delay * 10 <= Hi

\* C15 witness: a media delay was rounded up to 50 ms above maxDelay * mult.
DelayNearRangeWitness ==
    /\ probe.fn = "getHumanDelay"
    /\ probe.hasMedia
    /\ cfgNow.minDelay <= cfgNow.maxDelay
    /\ probe.delay * 10 = cfgNow.maxDelay * cfgNow.mediaDelayMultiplierTenths + 10 * (RoundStep \div 2)

\* C16 (as claimed): with the default configuration, a non-media unit that met neither a
\* cooldown nor a pattern penalty is dispatched at least minDelay and at most maxDelay
\* after the send before it completed.
DefaultSpacing ==
    env = DefaultEnv =>
        \A k \in DOMAIN dispatchLog :
            (/\ k > 1
             /\ ~units[dispatchLog[k]].hasMedia
             /\ ~units[dispatchLog[k - 1]].hasMedia
             /\ audit[dispatchLog[k - 1]].result = "ok"
             /\ audit[dispatchLog[k]].cooldownAt = 0
             /\ audit[dispatchLog[k]].flags = 0)
            => LET gap == DispatchTime(k) - audit[dispatchLog[k - 1]].settledAt
               IN  DefaultMinDelay <= gap /\ gap <= DefaultMaxDelay

\* C17 (as claimed): an engine whose functions run was given valid tunables (0 <= minDelay
\* <= maxDelay, cooldownPeriod > 0, maxMessagesBeforeCooldown > 0) and uses them as given.
TunablesValidated ==
    probe.fn # "none" =>
        /\ 0 <= GivenMin /\ GivenMin <= GivenMax
        /\ Given(env.COOLDOWN_PERIOD, DefaultCooldownPeriod) > 0
        /\ Given(env.MAX_MESSAGES_BEFORE_COOLDOWN, DefaultMaxMessages) > 0
        /\ cfgNow.minDelay = GivenMin
        /\ cfgNow.maxDelay = GivenMax

\* C18: a step that answers GET /status leaves the queue, the processing flag, the rate
\* state, the history, the worker and its timers and every promise as they were.
StatusReadOnly ==
    [][(Status \/ probe' # probe) =>
          UNCHANGED <<units, messageQueue, isProcessingQueue, lastMessageTime,
                      messageCountInWindow, cooldownUntil, messageHistory, loops, decayTimers,
                      nextCleanupAt, outcome, now>>]_vars

\* C18 witness: a status was taken while the worker sat out a cooldown with units queued,
\* and the engine is as the response says.
StatusReadOnlyWitness ==
    /\ probe.fn = "status"
    /\ probe.isProcessing
    /\ probe.queueLength > 0
    /\ probe.messageCountInWindow = 0
    /\ probe.cooldownUntil = <<cooldownUntil>>
    /\ Len(messageQueue) = probe.queueLength
    /\ \E i \in DOMAIN loops : loops[i].pc = "waitRate"

\* The successful sends before unit u that its pattern check can see in a window.
SentBeforeCheck(u, window) ==
    { v \in 1..(u - 1) :
        /\ audit[v].result = "ok"
        /\ audit[v].recordedAt <= audit[u].patternCheckedAt
        /\ audit[u].patternCheckedAt - audit[v].recordedAt < window }

\* C19: a unit is checked once, before it is dispatched, against the sends recorded before
\* the check; it is flagged exactly when 3 or more of those of the last 60 seconds have its
\* digest or 3 or more of those of the last 10 seconds have its recipient.
PatternVerdict ==
    \A u \in DOMAIN units :
        /\ audit[u].patternChecks <= 1
        /\ Dispatched(u) => audit[u].patternChecks = 1
        /\ audit[u].patternChecks = 1 =>
              /\ audit[u].repeatsSeen =
                    Cardinality({ v \in SentBeforeCheck(u, RepeatWindowMs) : Digest(v) = Digest(u) })
              /\ audit[u].recipientSeen =
                    Cardinality({ v \in SentBeforeCheck(u, RecipientWindowMs) :
                                    units[v].recipientId = units[u].recipientId })
              /\ audit[u].flags = IF \/ audit[u].repeatsSeen >= PatternThreshold
                                     \/ audit[u].recipientSeen >= PatternThreshold
                                  THEN 1 ELSE 0
              /\ audit[u].result = "ok" => audit[u].recordedAt >= audit[u].patternCheckedAt
              /\ Dispatched(u) => audit[u].dispatchedAt >= audit[u].patternCheckedAt

\* C19 witness: one unit was found suspicious and another, with two sends of its digest or
\* to its recipient on record, was not.
PatternVerdictWitness ==
    /\ \E u \in DOMAIN units : audit[u].flags = 1 /\ Dispatched(u)
    /\ \E u \in DOMAIN units :
          /\ audit[u].patternChecks = 1 /\ audit[u].flags = 0
          /\ audit[u].repeatsSeen = PatternThreshold - 1 \/ audit[u].recipientSeen = PatternThreshold - 1

\* C20: a call of shouldWait follows the three cases: (1) a cooldown still running: the
\* rest of it, nothing changed; (2) else the counter at the maximum: cooldownUntil is set
\* to now + cooldownPeriod, the counter to 0, the wait is cooldownPeriod; (3) else the part
\* of a getHumanDelay() value not yet elapsed since lastMessageTime, nothing changed.
AdmissionCases ==
    probe.fn = "shouldWait" =>
        LET b == probe.before
            d == getHumanDelay(FALSE, probe.k)
        IN  /\ lastMessageTime = b.lastMessageTime
            /\ now < b.cooldownUntil =>
                  /\ probe.wait = b.cooldownUntil - now
                  /\ cooldownUntil = b.cooldownUntil
                  /\ messageCountInWindow = b.messageCountInWindow
            /\ (now >= b.cooldownUntil
                 /\ b.messageCountInWindow >= cfgNow.maxMessagesBeforeCooldown) =>
                  /\ probe.wait = cfgNow.cooldownPeriod
                  /\ cooldownUntil = now + cfgNow.cooldownPeriod
                  /\ messageCountInWindow = 0
            /\ (now >= b.cooldownUntil
                 /\ b.messageCountInWindow < cfgNow.maxMessagesBeforeCooldown) =>
                  /\ probe.wait = Max(0, d - (now - b.lastMessageTime))
                  /\ cooldownUntil = b.cooldownUntil
                  /\ messageCountInWindow = b.messageCountInWindow

\* C20 witness: a call found the cooldown running that the call before it had started.
AdmissionCasesWitness ==
    /\ probe.fn = "shouldWait"
    /\ probe.before.cooldownUntil = now + cfgNow.cooldownPeriod
    /\ probe.before.messageCountInWindow = 0
    /\ probe.wait = cfgNow.cooldownPeriod
    /\ cooldownUntil = probe.before.cooldownUntil

\* C21 (as claimed): the tracking (lastMessageTime, messageCountInWindow, decay timer) is
\* done once for every dispatched unit, when its sendFunction is invoked.
RecordedBeforeSend ==
    \A u \in DOMAIN units :
        Dispatched(u) => audit[u].records = 1 /\ audit[u].recordedAt = audit[u].dispatchedAt

\* C21 (amended): the tracking is done at most once per unit, and only when the unit's
\* sendFunction has resolved, at that moment: not while the send is running, and not at
\* all for a unit whose sendFunction rejected.
RecordedAfterSuccess ==
    \A u \in DOMAIN units :
        /\ audit[u].records <= 1
        /\ audit[u].records = 1 <=> audit[u].result = "ok"
        /\ audit[u].records = 1 =>
              /\ audit[u].recordedAt = audit[u].settledAt
              /\ audit[u].recordedAt >= audit[u].dispatchedAt
              /\ lastMessageTime >= audit[u].recordedAt
        /\ HeldBy(u, {"sending"}) => audit[u].records = 0 /\ lastMessageTime <= audit[u].dispatchedAt

\* C21 witness: a send that took a tick was recorded when it resolved, a later send
\* failed and was not recorded, and a third one is running, not recorded yet.
RecordedAfterSuccessWitness ==
    \E u, v, w \in DOMAIN units :
        /\ audit[u].records = 1 /\ audit[u].recordedAt > audit[u].dispatchedAt
        /\ audit[v].result = "fail" /\ audit[v].records = 0
        /\ HeldBy(w, {"sending"})

\* C22: no step moves cooldownUntil to an earlier time.
CooldownMonotone == [][cooldownUntil' >= cooldownUntil]_vars

\* C22 witness: a cooldown was started, ran out, a decay timer fired, a send failed, the
\* worker went idle, and cooldownUntil is still the deadline that was set.
CooldownMonotoneWitness ==
    /\ \E u \in DOMAIN units : audit[u].cooldownAt > 0 /\ cooldownUntil = audit[u].cooldownAt + cfgNow.cooldownPeriod
    /\ now > cooldownUntil
    /\ \E u \in DOMAIN units : audit[u].result = "fail"
    /\ Len(decayTimers) < added
    /\ loops = <<>>

Recorded == { u \in DOMAIN units : audit[u].records = 1 }

\* The counter is not negative and not above the number of decay timers still pending;
\* every pending timer is that of a recorded send, due cooldownPeriod after it.
CounterState ==
    /\ messageCountInWindow >= 0
    /\ messageCountInWindow <= Len(decayTimers)
    /\ Cardinality(Recorded) = added
    /\ Len(decayTimers) <= added
    /\ \A i \in DOMAIN decayTimers :
          /\ \E u \in Recorded : decayTimers[i] = audit[u].recordedAt + cfgNow.cooldownPeriod
          /\ decayTimers[i] > now - TickMs

\* A step that records a send adds 1 to the counter and one timer due cooldownPeriod
\* later (the admission check of the next unit may reset the counter in the same turn); any
\* other step that changes the counter is a reset to 0 with a cooldown started now, or one
\* timer firing and taking 1 off, not below 0.
CounterStep ==
    /\ added' # added =>
          /\ added' = added + 1
          /\ \/ messageCountInWindow' = messageCountInWindow + 1
             \/ messageCountInWindow' = 0 /\ cooldownUntil' = now + cfgNow.cooldownPeriod
          /\ decayTimers' = Append(decayTimers, now + cfgNow.cooldownPeriod)
    /\ (added' = added /\ messageCountInWindow' # messageCountInWindow) =>
          \/ /\ messageCountInWindow' = 0
             /\ cooldownUntil' = now + cfgNow.cooldownPeriod
             /\ decayTimers' = decayTimers
          \/ /\ decayTimers' = Tail(decayTimers)
             /\ messageCountInWindow' = Max(0, messageCountInWindow - 1)
    /\ (added' = added /\ decayTimers' # decayTimers) => decayTimers' = Tail(decayTimers)

\* C23: messageCountInWindow is never negative; every recorded send adds exactly 1 to it
\* and schedules exactly one decrement, which fires cooldownPeriod later.
RateCounter == []CounterState /\ [][CounterStep]_vars

\* C23 witness: a decay timer fired on a counter that a cooldown had reset to 0, while a
\* later timer is still pending.
RateCounterWitness ==
    /\ messageCountInWindow = 0
    /\ cooldownUntil > epoch
    /\ added >= 2
    /\ Len(decayTimers) = 1
    /\ decayTimers[1] >= cooldownUntil

\* C24: a step in which a sendFunction is invoked ends at a time that is not before
\* cooldownUntil.
NoSendDuringCooldown ==
    [][Len(dispatchLog') > Len(dispatchLog) => now' >= cooldownUntil']_vars

\* C24 witness: the unit whose admission check started the cooldown was sent when the
\* cooldown was over, and no unit was sent in between.
NoSendDuringCooldownWitness ==
    \E k \in DOMAIN dispatchLog :
        /\ k > 1
        /\ audit[dispatchLog[k]].cooldownAt > 0
        /\ cooldownUntil = audit[dispatchLog[k]].cooldownAt + cfgNow.cooldownPeriod
        /\ DispatchTime(k) >= cooldownUntil
        /\ DispatchTime(k - 1) < audit[dispatchLog[k]].cooldownAt
        /\ Len(messageQueue) > 0

\* C25 (as claimed): every dispatch but the first of the process comes a getHumanDelay
\* wait, at least the smaller of minDelay and maxDelay, after the send before it settled,
\* whether that send succeeded or failed.
DelayBeforeLaterDispatch ==
    \A k \in DOMAIN dispatchLog :
        (k > 1 /\ audit[dispatchLog[k - 1]].result # "none") =>
            DispatchTime(k) - audit[dispatchLog[k - 1]].settledAt
                >= Min(cfgNow.minDelay, cfgNow.maxDelay)

\* C26 (as claimed): a queueMessage call appends its unit to the queue and does nothing
\* else to the queue, and no sendFunction is invoked in it.
SubmitOnlyAppends ==
    [][units' # units =>
          /\ messageQueue' = Append(messageQueue, Len(units'))
          /\ dispatchLog' = dispatchLog]_vars

\* C26 (amended): a queueMessage call returns a pending promise.  With the worker busy
\* it appends its unit and nothing else.  With the worker idle it also runs the worker up
\* to its first await: the queue holds this unit alone, and either the worker awaits a
\* timer with the unit still queued, or it has removed the unit and invoked its
\* sendFunction before the call returns.
SubmitRunsWorker ==
    [][units' # units =>
          LET u == Len(units')
          IN  /\ units' = Append(units, units'[u])
              /\ outcome'[u] = "pending"
              /\ \A v \in DOMAIN units : outcome'[v] = outcome[v]
              /\ isProcessingQueue =>
                    /\ messageQueue' = Append(messageQueue, u)
                    /\ dispatchLog' = dispatchLog
                    /\ loops' = loops
                    /\ UNCHANGED <<lastMessageTime, messageCountInWindow, cooldownUntil,
                                   messageHistory, decayTimers>>
              /\ ~isProcessingQueue =>
                    /\ messageQueue = <<>>
                    /\ isProcessingQueue'
                    /\ Len(loops') = 1 /\ loops'[1].queueItem = u
                    /\ \/ /\ messageQueue' = <<u>>
                          /\ dispatchLog' = dispatchLog
                          /\ loops'[1].pc \in {"waitRate", "waitPattern"}
                       \/ /\ messageQueue' = <<>>
                          /\ dispatchLog' = dispatchLog
                          /\ loops'[1].pc = "waitDelay"
                       \/ /\ messageQueue' = <<>>
                          /\ dispatchLog' = Append(dispatchLog, u)
                          /\ loops'[1].pc = "sending"]_vars

\* C26 witness: the first unit of the process was sent from within its queueMessage call
\* (nothing else has happened), and the unit submitted next was only queued.
SubmitRunsWorkerWitness ==
    /\ Len(units) = 2
    /\ dispatchLog = <<1>>
    /\ messageQueue = <<2>>
    /\ audit[1].result = "none"
    /\ HeldBy(1, {"sending"})
    /\ outcome = <<"pending", "pending">>

Settled(u) == u \in DOMAIN units /\ audit[u].execs = 1 /\ outcome[u] # "pending"

\* The run has reached its last tick with the worker still at work.
ClockRanOutAtWork ==
    /\ now + TickMs > epoch + MaxTicks * TickMs
    /\ Len(loops) = 1
    /\ isProcessingQueue

\* C27: with every timer firing and every sendFunction call settling, every unit
\* submitted is dispatched and its promise settled, unless the run ends first with the
\* worker still at work; and at no time is a unit queued with no worker to take it.
NoLostWakeup ==
    /\ [](messageQueue # <<>> => isProcessingQueue /\ Len(loops) = 1)
    /\ \A u \in 1..MaxUnits :
          [](u \in DOMAIN units =>
                <>(Settled(u) \/ ClockRanOutAtWork))

\* C27 witness: every unit of the run is settled, among them one submitted to an idle
\* worker that had been at work before, and one submitted to a worker at work.
NoLostWakeupWitness ==
    /\ Len(units) = MaxUnits
    /\ \A u \in DOMAIN units : Settled(u)
    /\ \E u \in DOMAIN units : audit[u].dispatchedAt > epoch /\ audit[u].result = "ok"
    /\ \E u \in DOMAIN units : u > 1 /\ audit[u].idleAtSubmit
    /\ \E u \in DOMAIN units : ~audit[u].idleAtSubmit
    /\ loops = <<>> /\ ~isProcessingQueue

Sending(u) == HeldBy(u, {"sending"})

\* C28: while a unit's sendFunction call has not settled, the one loop stays suspended on
\* it with isProcessingQueue true: no later unit is dispatched, the promises of that unit
\* and of all later ones are pending, and no step but the settling of that call moves the
\* loop.
StalledWorker ==
    /\ [](\A u \in DOMAIN units :
            Sending(u) =>
                /\ isProcessingQueue
                /\ Len(loops) = 1
                /\ \A v \in DOMAIN units :
                      v >= u => outcome[v] = "pending" /\ (v > u => ~Dispatched(v) /\ InQueue(v)))
    /\ [][\A u \in DOMAIN units :
            (Sending(u) /\ loops' # loops) => audit'[u].result # "none"]_vars

\* C28 witness: the second unit's send has been running for three cooldown periods, the
\* decay timer of the first send has fired, and the units behind it are still queued.
StalledWorkerWitness ==
    /\ Sending(2)
    /\ now - audit[2].dispatchedAt >= 3 * cfgNow.cooldownPeriod
    /\ added = 1 /\ decayTimers = <<>>
    /\ Len(messageQueue) = MaxUnits - 2

RateState == <<messageCountInWindow, cooldownUntil, lastMessageTime>>

WorkerStep == loops' # loops

DecayStep ==
    /\ decayTimers # <<>>
    /\ decayTimers' = Tail(decayTimers)
    /\ messageCountInWindow' = Max(0, messageCountInWindow - 1)
    /\ UNCHANGED <<cooldownUntil, lastMessageTime, messageHistory>>

PurgeStep ==
    /\ nextCleanupAt' > nextCleanupAt
    /\ Len(messageHistory') < Len(messageHistory)
    /\ UNCHANGED RateState

OneLogoutAtATime ==
    /\ Len(logoutRuns) <= 1
    /\ \A k \in DOMAIN logoutReplies :
          logoutReplies[k].running >= 1 => logoutReplies[k].answer = AlreadyInProgress

\* C31: the counter of the window never leaves 0..maxMessagesBeforeCooldown: every send
\* follows a shouldWait() that has reset a counter which had reached the maximum.
CountWithinMax ==
    /\ messageCountInWindow >= 0
    /\ messageCountInWindow <= cfgNow.maxMessagesBeforeCooldown

\* C31 witness: the counter has reached the maximum, shouldWait() has reset it and begun a
\* cooldown, and a further send has been counted.
CountWithinMaxWitness ==
    /\ cooldownUntil > 0
    /\ messageCountInWindow >= 1
    /\ added > cfgNow.maxMessagesBeforeCooldown

Drained == messageQueue = <<>> /\ loops = <<>> /\ ~isProcessingQueue

\* C32: the counter is at most the number of pending decay timers, each of which belongs
\* to a send recorded less than a cooldown period ago; so once the queue is drained, the
\* counter is 0 when a cooldown period has passed since the last send, and it stays 0.
DecayDrains ==
    /\ [](/\ messageCountInWindow <= Len(decayTimers)
          /\ \A i \in DOMAIN decayTimers :
                /\ decayTimers[i] <= lastMessageTime + cfgNow.cooldownPeriod
                /\ now <= decayTimers[i]
          /\ (Drained /\ now > lastMessageTime + cfgNow.cooldownPeriod) =>
                messageCountInWindow = 0 /\ decayTimers = <<>>)
    /\ [][(Drained /\ Drained' /\ messageCountInWindow = 0) => messageCountInWindow' = 0]_vars

\* C32 witness: the queue was drained with sends still in the window, and a cooldown
\* period after the last of them the counter is 0.
DecayDrainsWitness ==
    /\ Drained
    /\ added >= 2
    /\ lastMessageTime > epoch
    /\ now > lastMessageTime + cfgNow.cooldownPeriod
    /\ messageCountInWindow = 0

SuccessLog == SelectSeq(dispatchLog, LAMBDA u : audit[u].result = "ok")

Round100(ms, tenths) == ((ms * tenths + 5 * RoundStep) \div (10 * RoundStep)) * RoundStep

ChecksOnce(u) ==
    /\ audit[u].rateChecks <= 1
    /\ audit[u].patternChecks <= 1
    /\ audit[u].delayChecks <= 1
    /\ audit[u].patternChecks <= audit[u].rateChecks
    /\ audit[u].delayChecks <= audit[u].patternChecks
    /\ audit[u].execs <= audit[u].delayChecks
    /\ audit[u].penaltyWait \in {0, cfgNow.cooldownPeriod}
    /\ audit[u].delayWait <=
          Round100(Max(cfgNow.minDelay, cfgNow.maxDelay),
                   IF units[u].hasMedia THEN cfgNow.mediaDelayMultiplierTenths ELSE 10)

\* C35 as stated: every unit is checked once at each of the three points, and its
\* admission wait is at most max(cooldownPeriod, maxDelay).
BoundedWaits ==
    \A u \in DOMAIN units :
        /\ ChecksOnce(u)
        /\ audit[u].admissionWait <= Max(cfgNow.cooldownPeriod, cfgNow.maxDelay)

\* C35: every unit is checked once at each of the three points, in their order, before
\* its sendFunction is invoked; its admission wait is at most the larger of cooldownPeriod
\* and the largest delay getHumanDelay() can return (the larger of minDelay and maxDelay,
\* rounded to a multiple of 100), its penalty is cooldownPeriod, and its human delay is at
\* most the largest delay getHumanDelay(hasMedia) can return.
BoundedRoundedWaits ==
    \A u \in DOMAIN units :
        /\ ChecksOnce(u)
        /\ audit[u].admissionWait <=
              Max(cfgNow.cooldownPeriod, Round100(Max(cfgNow.minDelay, cfgNow.maxDelay), 10))

\* C35 witness: a dispatched unit has waited for its spacing, for a pattern penalty and
\* for its human delay, and a unit has waited a spacing of more than maxDelay.
BoundedRoundedWaitsWitness ==
    /\ \E u \in DOMAIN units :
          /\ Dispatched(u)
          /\ audit[u].admissionWait > 0
          /\ audit[u].penaltyWait > 0
          /\ audit[u].delayWait > 0
    /\ \E v \in DOMAIN units :
          Dispatched(v) /\ audit[v].cooldownAt = 0 /\ audit[v].admissionWait > cfgNow.maxDelay

\* The i-th character of a message, or "" past its end.
RECURSIVE CharAt(_, _)
CharAt(message, i) ==
    IF message = << >> THEN ""
    ELSE IF i <= message[1][2] THEN message[1][1]
    ELSE CharAt(Tail(message), i - message[1][2])

AgreeOnPrefix(m1, m2) == \A i \in 1..PrefixLen : CharAt(m1, i) = CharAt(m2, i)

\* C36: the entries that detectSuspiciousPattern takes for repetitions of a message are
\* those added with a message that has the same first 50 characters, whatever follows
\* them (two empty captions are the same content); the verdict of the repetition rule
\* counts these.
PrefixDecides ==
    probe.fn = "detectSuspiciousPattern" =>
        LET same == { i \in 1..probe.entries : AgreeOnPrefix(units[i].message, probe.message) }
        IN  /\ probe.matches = Cardinality(same)
            /\ probe.verdict <=> Cardinality(same) >= PatternThreshold

\* C36 witness: three entries added with messages of 50, 51 and 51 characters that differ
\* in the 51st only make a further such message a repetition.
PrefixDecidesWitness ==
    /\ probe.fn = "detectSuspiciousPattern"
    /\ probe.entries = MaxEntries
    /\ probe.message = LongB
    /\ units[1].message = LongA
    /\ units[2].message = << <<"a", PrefixLen>> >>
    /\ units[3].message = LongB
    /\ probe.verdict

\* C37: no sendFunction is invoked in a turn in which isLoggingOut or isClientDestroyed
\* is set.
NoSendDuringLogout ==
    [][Len(dispatchLog') > Len(dispatchLog) => ~(isLoggingOut \/ isClientDestroyed)]_vars
====
